---- MODULE Spec2Model ----
(***************************************************************************)
(* Model of challenge.py: find_parents, get_children (the explicit-stack   *)
(* reachability loop and the recursive _get_max_depth) and                 *)
(* validate_parents, run in the order main() runs them on a node store.    *)
(***************************************************************************)
EXTENDS Integers, Sequences, FiniteSets

VARIABLES menus, pc, outcome, parents, pidx, visited, stack, branches, bidx,
          classification

vars == <<menus, pc, outcome, parents, pidx, visited, stack, branches, bidx,
          classification>>

(***************************************************************************)
(* Bounds of the checked stores.                                           *)
(***************************************************************************)
\* ids 1..MaxId of the stores with arbitrary child references
MaxId == 3
\* ids 1..MaxDag of the stores whose references point forward, plus one back to 1
MaxDag == 4
\* longest linear chain
MaxChain == 6
\* most menus without a parent_id in one store
MaxRoots == 2

\* most child references in a store with arbitrary references
MaxEdges == MaxId

\* the value menu.get('parent_id') yields when the key is absent
None == 0

\* the depth from which validate_parents rejects a branch
MaxValidDepth == 4

(***************************************************************************)
(* Helpers.                                                                *)
(***************************************************************************)
Max(S) == CHOOSE x \in S : \A y \in S : y <= x

Min(S) == CHOOSE x \in S : \A y \in S : x <= y

Range(s) == {s[i] : i \in 1..Len(s)}

\* every list holding each element of S once: the orders a Python set or an
\* input list of distinct ids can be iterated in
Orders(S) == {f \in [1..Cardinality(S) -> S] : \A i, j \in 1..Cardinality(S) : f[i] = f[j] => i = j}

\* list(visited): each element once; the order a set of small ints is iterated
\* in is ascending
list(S) == CHOOSE f \in Orders(S) : \A i, j \in 1..Cardinality(S) : i < j => f[i] < f[j]

RECURSIVE SubsetsUpTo(_, _)
SubsetsUpTo(S, k) ==
  IF k = 0 THEN {{}}
  ELSE LET prev == SubsetsUpTo(S, k - 1)
       IN  prev \cup {s \cup {e} : s \in prev, e \in S}

(***************************************************************************)
(* The node store: what get_api_data returns, a dictionary keyed by id of  *)
(* menus with an id, a child_ids list and, unless the menu is a root, a    *)
(* parent_id.  The first k ids are the roots.                              *)
(***************************************************************************)
ParentOf(dom, E, i) ==
  LET ps == {p \in dom : <<p, i>> \in E}
  IN  IF ps = {} THEN Max(dom) + 1 ELSE Min(ps)

MkStore(dom, E, k) ==
  [i \in dom |-> [id        |-> i,
                  parent_id |-> IF i <= k THEN None ELSE ParentOf(dom, E, i),
                  child_ids |-> {e[2] : e \in {x \in E : x[1] = i}}]]

\* arbitrary references among 1..MaxId; in the second half the menu MaxId is
\* missing from the store while references to it remain
GeneralStores ==
  {MkStore(1..MaxId, E, k) :
     E \in SubsetsUpTo((1..MaxId) \X (1..MaxId), MaxEdges), k \in 0..MaxRoots}
  \cup
  {MkStore(1..(MaxId - 1), E, k) :
     E \in SubsetsUpTo((1..(MaxId - 1)) \X (1..MaxId), MaxEdges),
     k \in 0..Min({MaxRoots, MaxId - 1})}

\* at most MaxDag references pointing from a lower id to a higher one (trees,
\* diamonds), with at most one reference back to menu 1, the only root
ForwardEdges == {e \in (1..MaxDag) \X (1..MaxDag) : e[1] < e[2]}

BackEdges == {e \in (1..MaxDag) \X (1..MaxDag) : e[2] = 1}

RootedStores ==
  {MkStore(1..MaxDag, F \cup B, 1) :
     F \in SubsetsUpTo(ForwardEdges, MaxDag), B \in SubsetsUpTo(BackEdges, 1)}

\* 1 -> 2 -> ... -> n; with a second root the chain 2 -> ... -> n starts at it
ChainStores ==
  {MkStore(1..n, {e \in (1..n) \X (1..n) : e[2] = e[1] + 1}, k) :
     n \in 1..MaxChain, k \in 1..MaxRoots}

Stores == GeneralStores \cup RootedStores \cup ChainStores

\* the frames the interpreter grants the recursion: more than any store has
\* menus, so only a recursion that re-enters a menu exhausts them
RecursionLimit == Max({MaxId, MaxDag, MaxChain}) + 1

(***************************************************************************)
(* _get_max_depth(menus, parent, children).  The result is the set of      *)
(* outcomes the call can have: one depth, or the exceptions it can raise   *)
(* (which one depends on the order the children are listed in).  limit is  *)
(* the number of frames left before the interpreter raises RecursionError. *)
(***************************************************************************)
Depth(n) == [err |-> "none", depth |-> n]

Raised(e) == [err |-> e, depth |-> 0]

\* mutant: the shallowest child decides the depth
RECURSIVE get_max_depth_min(_, _, _, _)
get_max_depth_min(m, parent, children, limit) ==
  IF limit = 0 THEN {Raised("RecursionError")}
  ELSE IF children = {} THEN {Depth(0)}
  ELSE IF parent \in children THEN {Depth(1)}
  ELSE LET depths == [child \in children |->
                        IF child \notin DOMAIN m
                        THEN {Raised("KeyError")}
                        ELSE get_max_depth_min(m, parent, m[child].child_ids, limit - 1)]
           all    == UNION {depths[child] : child \in children}
           errs   == {o \in all : o.err # "none"}
       IN  IF errs # {} THEN errs
           ELSE {Depth(Min({o.depth : o \in all}) + 1)}

\* mutant: no test for the cyclical reference
RECURSIVE get_max_depth_nocycle(_, _, _, _)
get_max_depth_nocycle(m, parent, children, limit) ==
  IF limit = 0 THEN {Raised("RecursionError")}
  ELSE IF children = {} THEN {Depth(0)}
  ELSE LET depths == [child \in children |->
                        IF child \notin DOMAIN m
                        THEN {Raised("KeyError")}
                        ELSE get_max_depth_nocycle(m, parent, m[child].child_ids, limit - 1)]
           all    == UNION {depths[child] : child \in children}
           errs   == {o \in all : o.err # "none"}
       IN  IF errs # {} THEN errs
           ELSE {Depth(Max({o.depth : o \in all}) + 1)}

\* mutant: the reference back to the root is not counted as an edge
RECURSIVE get_max_depth_cycle0(_, _, _, _)
get_max_depth_cycle0(m, parent, children, limit) ==
  IF limit = 0 THEN {Raised("RecursionError")}
  ELSE IF children = {} THEN {Depth(0)}
  ELSE IF parent \in children THEN {Depth(0)}
  ELSE LET depths == [child \in children |->
                        IF child \notin DOMAIN m
                        THEN {Raised("KeyError")}
                        ELSE get_max_depth_cycle0(m, parent, m[child].child_ids, limit - 1)]
           all    == UNION {depths[child] : child \in children}
           errs   == {o \in all : o.err # "none"}
       IN  IF errs # {} THEN errs
           ELSE {Depth(Max({o.depth : o \in all}) + 1)}

RECURSIVE get_max_depth(_, _, _, _)
get_max_depth(m, parent, children, limit) ==
  IF limit = 0 THEN {Raised("RecursionError")}
  ELSE IF children = {} THEN {Depth(0)}
  ELSE IF parent \in children THEN {Depth(1)}
  ELSE LET depths == [child \in children |->
                        IF child \notin DOMAIN m
                        THEN {Raised("KeyError")}
                        ELSE get_max_depth(m, parent, m[child].child_ids, limit - 1)]
           all    == UNION {depths[child] : child \in children}
           errs   == {o \in all : o.err # "none"}
       IN  IF errs # {} THEN errs
           ELSE {Depth(Max({o.depth : o \in all}) + 1)}

\* mutant: or in place of and
IsValidEither(branch) ==
  branch.max_depth <= MaxValidDepth \/ branch.root_id \notin Range(branch.children)

\* mutant: < in place of <=
IsValidStrict(branch) ==
  branch.max_depth < MaxValidDepth /\ branch.root_id \notin Range(branch.children)

\* 'max_depth' <= 4 and 'root_id' not in 'children'
IsValid(branch) ==
  branch.max_depth <= MaxValidDepth /\ branch.root_id \notin Range(branch.children)

(***************************************************************************)
(* The program.                                                            *)
(***************************************************************************)
Init ==
  /\ menus \in Stores
  /\ pc = "find_parents"
  /\ outcome = "running"
  /\ parents = <<>>
  /\ pidx = 1
  /\ visited = {}
  /\ stack = <<>>
  /\ branches = <<>>
  /\ bidx = 1
  /\ classification = [valid_menus |-> <<>>, invalid_menus |-> <<>>]

\* find_parents: the menus without a parent_id, in the dictionary's order
find_parents ==
  /\ pc = "find_parents"
  /\ parents' \in Orders({i \in DOMAIN menus : menus[i].parent_id = None})
  /\ pc' = "for_parent"
  /\ UNCHANGED <<menus, outcome, pidx, visited, stack, branches, bidx, classification>>

\* mutant: the traversal starts from the root instead of its children
get_children_for_root ==
  /\ pc = "for_parent"
  /\ pidx <= Len(parents)
  /\ visited' = {}
  /\ stack' = <<parents[pidx]>>
  /\ pc' = "while_stack"
  /\ UNCHANGED <<menus, outcome, parents, pidx, branches, bidx, classification>>

\* mutant: visited is created once, before the loop over the parents
get_children_for_keep ==
  /\ pc = "for_parent"
  /\ pidx <= Len(parents)
  /\ visited' = visited
  /\ stack' \in Orders(menus[parents[pidx]].child_ids)
  /\ pc' = "while_stack"
  /\ UNCHANGED <<menus, outcome, parents, pidx, branches, bidx, classification>>

\* for parent in parents: visited = set(); stack = []; stack.extend(child_ids)
get_children_for ==
  /\ pc = "for_parent"
  /\ pidx <= Len(parents)
  /\ visited' = {}
  /\ stack' \in Orders(menus[parents[pidx]].child_ids)
  /\ pc' = "while_stack"
  /\ UNCHANGED <<menus, outcome, parents, pidx, branches, bidx, classification>>

\* node = stack.pop() with node already in visited
get_children_skip ==
  /\ pc = "while_stack"
  /\ stack # <<>>
  /\ stack[Len(stack)] \in visited
  /\ stack' = SubSeq(stack, 1, Len(stack) - 1)
  /\ UNCHANGED <<menus, pc, outcome, parents, pidx, visited, branches, bidx, classification>>

\* mutant: the popped node's children are not pushed
get_children_visit_nopush ==
  /\ pc = "while_stack"
  /\ stack # <<>>
  /\ LET node == stack[Len(stack)]
     IN  /\ node \notin visited
         /\ node \in DOMAIN menus
         /\ visited' = visited \cup {node}
         /\ stack' = SubSeq(stack, 1, Len(stack) - 1)
  /\ UNCHANGED <<menus, pc, outcome, parents, pidx, branches, bidx, classification>>

\* node = stack.pop(); visited.add(node); stack.extend(set(child_ids) - visited)
get_children_visit ==
  /\ pc = "while_stack"
  /\ stack # <<>>
  /\ LET node == stack[Len(stack)]
     IN  /\ node \notin visited
         /\ node \in DOMAIN menus
         /\ visited' = visited \cup {node}
         /\ \E pushed \in Orders(menus[node].child_ids \ (visited \cup {node})) :
              stack' = SubSeq(stack, 1, Len(stack) - 1) \o pushed
  /\ UNCHANGED <<menus, pc, outcome, parents, pidx, branches, bidx, classification>>

\* mutant: menus.get(node) with a default, the unknown id is a childless leaf
get_children_unknown_leaf ==
  /\ pc = "while_stack"
  /\ stack # <<>>
  /\ LET node == stack[Len(stack)]
     IN  /\ node \notin visited
         /\ node \notin DOMAIN menus
         /\ visited' = visited \cup {node}
         /\ stack' = SubSeq(stack, 1, Len(stack) - 1)
  /\ UNCHANGED <<menus, pc, outcome, parents, pidx, branches, bidx, classification>>

\* node = stack.pop(); visited.add(node); menus[node] raises KeyError
get_children_unknown ==
  /\ pc = "while_stack"
  /\ stack # <<>>
  /\ LET node == stack[Len(stack)]
     IN  /\ node \notin visited
         /\ node \notin DOMAIN menus
         /\ visited' = visited \cup {node}
         /\ stack' = SubSeq(stack, 1, Len(stack) - 1)
  /\ pc' = "error"
  /\ outcome' = "KeyError"
  /\ UNCHANGED <<menus, parents, pidx, branches, bidx, classification>>

\* branches.append({'root_id', 'children': list(visited), 'max_depth'})
get_children_append ==
  /\ pc = "while_stack"
  /\ stack = <<>>
  /\ LET parent == menus[parents[pidx]]
     IN  \E o \in get_max_depth(menus, parent.id, parent.child_ids, RecursionLimit) :
           /\ o.err = "none"
           /\ branches' = Append(branches, [root_id   |-> parent.id,
                                              children  |-> list(visited),
                                              max_depth |-> o.depth])
  /\ pidx' = pidx + 1
  /\ pc' = "for_parent"
  /\ UNCHANGED <<menus, outcome, parents, visited, stack, bidx, classification>>

\* the call of _get_max_depth raises
get_children_raise ==
  /\ pc = "while_stack"
  /\ stack = <<>>
  /\ LET parent == menus[parents[pidx]]
     IN  \E o \in get_max_depth(menus, parent.id, parent.child_ids, RecursionLimit) :
           /\ o.err # "none"
           /\ outcome' = o.err
  /\ pc' = "error"
  /\ UNCHANGED <<menus, parents, pidx, visited, stack, branches, bidx, classification>>

\* return branches
get_children_return ==
  /\ pc = "for_parent"
  /\ pidx > Len(parents)
  /\ pc' = "validate"
  /\ UNCHANGED <<menus, outcome, parents, pidx, visited, stack, branches, bidx, classification>>

\* one turn of validate_parents' loop: branch.pop('max_depth'), then append
validate_parents_branch ==
  /\ pc = "validate"
  /\ bidx <= Len(branches)
  /\ LET branch == branches[bidx]
         popped == [root_id |-> branch.root_id, children |-> branch.children]
     IN  /\ branches' = [branches EXCEPT ![bidx] = popped]
         /\ IF IsValid(branch)
            THEN classification' =
                   [classification EXCEPT !.valid_menus = Append(@, popped)]
            ELSE classification' =
                   [classification EXCEPT !.invalid_menus = Append(@, popped)]
  /\ bidx' = bidx + 1
  /\ UNCHANGED <<menus, pc, outcome, parents, pidx, visited, stack>>

\* return classification
validate_parents_return ==
  /\ pc = "validate"
  /\ bidx > Len(branches)
  /\ pc' = "done"
  /\ outcome' = "ok"
  /\ UNCHANGED <<menus, parents, pidx, visited, stack, branches, bidx, classification>>

Next ==
  \/ find_parents
  \/ get_children_for
  \/ get_children_skip
  \/ get_children_visit
  \/ get_children_unknown
  \/ get_children_append
  \/ get_children_raise
  \/ get_children_return
  \/ validate_parents_branch
  \/ validate_parents_return

Spec == Init /\ [][Next]_vars

(***************************************************************************)
(* The graph of child references, defined without the program's loops.     *)
(***************************************************************************)
Kids(u) == IF u \in DOMAIN menus THEN menus[u].child_ids ELSE {}

Roots == {i \in DOMAIN menus : menus[i].parent_id = None}

RECURSIVE Grow(_)
Grow(S) ==
  LET T == S \cup UNION {Kids(x) : x \in S}
  IN  IF T = S THEN S ELSE Grow(T)

\* the ids a path of one or more child references leads to from R
Reach(R) == Grow(Kids(R))

\* some menu that R reaches, or R itself, refers to R
OnCycle(R) == \E u \in Reach(R) \cup {R} : R \in Kids(u)

\* no menu of R's branch reaches itself
Acyclic(R) == \A u \in Reach(R) \cup {R} : u \notin Reach(u)

\* R reaches an id the store does not hold
Dangling(R) == \E u \in Reach(R) : u \notin DOMAIN menus

AllResolve == \A i \in DOMAIN menus : menus[i].child_ids \subseteq DOMAIN menus

\* the edges of the longest simple path from u through ids outside avoid
RECURSIVE LongestSimplePath(_, _)
LongestSimplePath(u, avoid) ==
  LET next == Kids(u) \ avoid
  IN  IF next = {} THEN 0
      ELSE 1 + Max({LongestSimplePath(c, avoid \cup {c}) : c \in next})

\* the same, where a path ends at the first menu that refers to R and that
\* reference counts as its last edge
RECURSIVE LongestCutPath(_, _, _)
LongestCutPath(R, u, avoid) ==
  LET next == Kids(u) \ avoid
  IN  IF R \in Kids(u) THEN 1
      ELSE IF next = {} THEN 0
      ELSE 1 + Max({LongestCutPath(R, c, avoid \cup {c}) : c \in next})

\* the number of menus of the linear chain that starts at u, 0 if there is none
RECURSIVE ChainFrom(_, _)
ChainFrom(u, seen) ==
  IF u \notin DOMAIN menus THEN 0
  ELSE IF Kids(u) = {} THEN Cardinality(seen)
  ELSE IF Cardinality(Kids(u)) = 1 /\ Kids(u) \cap seen = {}
       THEN LET c == CHOOSE x \in Kids(u) : TRUE IN ChainFrom(c, seen \cup {c})
       ELSE 0

ChainLen(R) == ChainFrom(R, {R})

\* the branches that hold their max_depth (validate_parents pops it)
Measured == bidx..Len(branches)

Current == menus[parents[pidx]]

ValidRoots == {classification.valid_menus[i].root_id : i \in 1..Len(classification.valid_menus)}

InvalidRoots == {classification.invalid_menus[i].root_id : i \in 1..Len(classification.invalid_menus)}

Emitted == classification.valid_menus \o classification.invalid_menus

\* what the program computes for root R, whatever else it processes
DepthAlone(R) == get_max_depth(menus, R, Kids(R), RecursionLimit)

BranchAlone(R) ==
  [root_id   |-> R,
   children  |-> list(Reach(R)),
   max_depth |-> (CHOOSE o \in DepthAlone(R) : TRUE).depth]

(***************************************************************************)
(* The claims.                                                             *)
(***************************************************************************)

\* C1: in a store whose child references all resolve, computing a root's
\* branch terminates whatever cycles the graph has: the recursion of
\* _get_max_depth never re-enters menus until the interpreter's frames run out.
C1_BranchTerminates == AllResolve => outcome # "RecursionError"

\* C2: after the three functions have run, every root is in exactly one of
\* valid_menus and invalid_menus, it is in valid_menus iff its computed depth
\* is at most 4 and its id is not among its children, and no menu that has a
\* parent is emitted.
C2_Partition ==
  outcome = "ok" =>
    /\ \A i \in 1..Len(Emitted) : Emitted[i].root_id \in Roots
    /\ \A r \in Roots :
         /\ Cardinality({i \in 1..Len(Emitted) : Emitted[i].root_id = r}) = 1
         /\ \A i \in 1..Len(Emitted) :
              Emitted[i].root_id = r =>
                (r \in ValidRoots <=>
                   /\ \A o \in DepthAlone(r) : o.err = "none" /\ o.depth <= 4
                   /\ r \notin Range(Emitted[i].children))

C2_Witness ==
  /\ outcome = "ok"
  /\ ValidRoots # {}
  /\ InvalidRoots # {}
  /\ Roots # DOMAIN menus

\* C3: the children recorded for a root are exactly the ids a path of one or
\* more child references reaches from it, each once; so the root is among
\* them iff some path leads from the root back to it.
C3_ChildrenAreReachable ==
  \A i \in 1..Len(branches) :
    LET b == branches[i]
    IN  /\ Range(b.children) = Reach(b.root_id)
        /\ Len(b.children) = Cardinality(Reach(b.root_id))
        /\ b.root_id \in Range(b.children) <=> OnCycle(b.root_id)

C3_Witness ==
  \E i \in 1..Len(branches) :
    LET b == branches[i]
    IN  /\ b.root_id \in Range(b.children)
        /\ b.root_id \notin Kids(b.root_id)
        /\ Len(b.children) >= 3

\* C4: for a root whose branch has no cycle, max_depth is the number of edges
\* of the longest path from the root: 0 for a childless root, and 2 with the
\* children {A, B, C} for the diamond root -> {A, B}, A -> {C}, B -> {C}.
IsDiamond(R, A, B, C) ==
  /\ Cardinality({R, A, B, C}) = 4
  /\ Kids(R) = {A, B}
  /\ Kids(A) = {C}
  /\ Kids(B) = {C}
  /\ Kids(C) = {}
  /\ C \in DOMAIN menus

C4_AcyclicDepth ==
  \A i \in Measured :
    LET b == branches[i]
    IN  /\ Acyclic(b.root_id) => b.max_depth = LongestSimplePath(b.root_id, {b.root_id})
        /\ Kids(b.root_id) = {} => b.max_depth = 0
        /\ \A A, B, C \in DOMAIN menus :
             IsDiamond(b.root_id, A, B, C) =>
               b.max_depth = 2 /\ Range(b.children) = {A, B, C}

C4_Witness ==
  \E i \in Measured : \E A, B, C \in DOMAIN menus :
    /\ IsDiamond(branches[i].root_id, A, B, C)
    /\ branches[i].max_depth = 2

\* C5: a root whose child list holds its own id gets depth 1 and is classified
\* invalid, whatever its other children are and however deep or cyclic their
\* subtrees.
C5_SelfChild ==
  /\ \A i \in Measured :
       branches[i].root_id \in Kids(branches[i].root_id) => branches[i].max_depth = 1
  /\ \A r \in ValidRoots : r \notin Kids(r)
  /\ (pc = "while_stack" /\ stack = <<>> /\ Current.id \in Current.child_ids)
       => DepthAlone(Current.id) = {Depth(1)}
  /\ outcome = "RecursionError" => Current.id \notin Current.child_ids
  /\ outcome = "ok" => \A r \in Roots : r \in Kids(r) => r \in InvalidRoots

C5_Witness ==
  \E r \in InvalidRoots :
    /\ r \in Kids(r)
    /\ \E a \in Kids(r) \ {r} : a \in Reach(a) /\ r \notin Reach(a)

\* C6: for a linear, cycle-free chain of n menus that starts at a root the
\* depth is n - 1 and the root is valid exactly when n <= 5: the chain of 5
\* is valid, the chain of 6 invalid.
C6_ChainBoundary ==
  /\ \A i \in Measured :
       ChainLen(branches[i].root_id) > 0 =>
         branches[i].max_depth = ChainLen(branches[i].root_id) - 1
  /\ \A r \in ValidRoots : ChainLen(r) > 0 => ChainLen(r) <= 5
  /\ \A r \in InvalidRoots : ChainLen(r) > 0 => ChainLen(r) >= 6

C6_Witness ==
  /\ \E r \in ValidRoots : ChainLen(r) = 5
  /\ \E r \in InvalidRoots : ChainLen(r) = 6

\* C7: when a root reaches a child id that the store does not hold, computing
\* its branch ends in the unknown-node error and the root is never emitted:
\* the loop never finishes for it, the missing id is never kept as a visited
\* leaf, and no branch or classification entry exists for it.
C7_UnknownNode ==
  /\ \A i \in 1..Len(branches) : ~Dangling(branches[i].root_id)
  /\ \A r \in ValidRoots \cup InvalidRoots : ~Dangling(r)
  /\ pc # "error" => visited \subseteq DOMAIN menus
  /\ (pc = "while_stack" /\ stack = <<>>) => ~Dangling(Current.id)
  /\ (pc = "error" /\ Dangling(Current.id)) => outcome = "KeyError"
  /\ outcome = "ok" => \A r \in Roots : ~Dangling(r)

C7_Witness ==
  /\ outcome = "KeyError"
  /\ Current.child_ids \subseteq DOMAIN menus
  /\ Dangling(Current.id)

\* C8: the branch record and the classification of a root depend on the store
\* and the root alone: every traversal starts from an empty visited set and
\* the root's child list, the store is never changed, each appended record is
\* the one the root gets on its own, and so is its classification.
C8_Step ==
  /\ menus' = menus
  /\ (pc = "for_parent" /\ pc' = "while_stack") =>
       /\ visited' = {}
       /\ Range(stack') = Current.child_ids
       /\ Len(stack') = Cardinality(Current.child_ids)
  /\ Len(branches') = Len(branches) + 1 =>
       branches'[Len(branches')] = BranchAlone(branches'[Len(branches')].root_id)
  /\ \A r \in ValidRoots' \ ValidRoots : IsValid(BranchAlone(r))
  /\ \A r \in InvalidRoots' \ InvalidRoots : ~IsValid(BranchAlone(r))

C8_Independent == [][C8_Step]_vars

C8_Witness ==
  /\ outcome = "ok"
  /\ \E r1, r2 \in ValidRoots : r1 # r2 /\ Reach(r1) \cap Reach(r2) # {}

\* C9 as stated: whenever the depth computation terminates, max_depth is the
\* length of the longest simple path from the root that does not revisit it.
C9_LongestSimplePath ==
  \A i \in Measured :
    branches[i].max_depth = LongestSimplePath(branches[i].root_id, {branches[i].root_id})

\* C9 as amended: whenever the depth computation terminates, max_depth is the
\* length of the longest simple path from the root, where a path ends at the
\* first menu whose child list holds the root and the reference back to the
\* root counts as the path's last edge.
C9_LongestCutPath ==
  \A i \in Measured :
    branches[i].max_depth = LongestCutPath(branches[i].root_id, branches[i].root_id, {branches[i].root_id})

C9_Witness ==
  \E i \in Measured :
    /\ branches[i].root_id \notin Kids(branches[i].root_id)
    /\ branches[i].max_depth < LongestSimplePath(branches[i].root_id, {branches[i].root_id})

\* C10: in the reachability loop, in any order of pushes and pops, an id is
\* added to visited at most once and expanded at most once per root, a popped
\* id that is already visited is dropped without expansion, every id in
\* visited or on the stack is reachable from the root, and once the stack is
\* empty every child of every visited id is visited.
LoopInv ==
  pc = "while_stack" =>
    /\ visited \cup Range(stack) \subseteq Reach(Current.id)
    /\ stack = <<>> => \A v \in visited : Kids(v) \subseteq visited

C10_Step ==
  /\ LoopInv'
  /\ (pc = "while_stack" /\ stack # <<>>) =>
       LET node == stack[Len(stack)]
           rest == SubSeq(stack, 1, Len(stack) - 1)
       IN  /\ node \in visited => visited' = visited /\ stack' = rest
           /\ node \notin visited =>
                /\ visited' = visited \cup {node}
                /\ SubSeq(stack', 1, Len(rest)) = rest
                /\ Range(SubSeq(stack', Len(rest) + 1, Len(stack'))) = Kids(node) \ visited'
                /\ Len(stack') = Len(rest) + Cardinality(Kids(node) \ visited')

C10_LoopInvariant == [][C10_Step]_vars

C10_Witness ==
  /\ pc = "while_stack"
  /\ stack # <<>>
  /\ stack[Len(stack)] \in visited
  /\ Cardinality(visited) >= 2
  /\ Len(stack) >= 2

====
